---- MODULE Spec2Model ----
(***************************************************************************)
(* Influence-weighted reward settlement of the Q&A forum (server.js,       *)
(* database.js, serverReward.js, balance.js).                              *)
(*                                                                         *)
(* The store is the SQLite database: the tables users, questions, answers  *)
(* and endorsements.  Every `await` of a handler is a point where other    *)
(* handlers and timer callbacks run, so each handler is a chain of steps,  *)
(* one per awaited operation.  A statement handed to the database takes    *)
(* effect in the step that issues it.                                      *)
(*                                                                         *)
(* Units: influence points and influence values are counted in tenths of   *)
(* a point (REAL with one decimal in the code), token balances returned by *)
(* getTokenBalance in tenths of a token.                                   *)
(***************************************************************************)
EXTENDS Integers, Sequences, FiniteSets, TLC

\* ------------------------------------------------------------------ bounds
MaxAnswers == 2      \* rows the answers table may reach
MaxTicks == 2        \* firings of the 60 s timer
MaxReqs == 2         \* endorse requests
MaxNow == 1          \* last value of the clock
EscrowFunds == 2     \* largest initial token balance of the server wallet
PoolSize == 3        \* answers in the initial tables of SpecWinner
MaxQuestions == 2    \* rows the questions table may reach
MaxAiReqs == 1       \* ai-answer requests
MaxFailures == 2     \* failed transfers before the ledger lets one through (SpecLive)
MaxLookups == 2      \* calls of getTokenBalance followed on their own (SpecBalance)

NULL == 0

\* The users table: rows 1 and 2 registered with a wallet (POST /api/register
\* requires one), row 3 a row that predates the wallet_address column.
Users == {1, 2, 3}
\* Balances getTokenBalance may report, in tenths of a token.
Balances == {0, 14, 25, 450}
\* influence_points of the answers in the initial tables of SpecWinner.
PoolPoints == {0, 25, 30}
\* Wallet addresses a user may bind, as stored (lower case).
Addresses == {1, 2, 3}
\* The same addresses as a request may spell them: a and a + 3 differ in the
\* case of their hex digits only.
Spellings == Addresses \cup {a + Cardinality(Addresses) : a \in Addresses}
\* Names a registration may ask for.
Names == {1, 2, 3}
\* Texts the RAG script may print for a question.
GeneratedTexts == {1, 2}

VARIABLES
    now,             \* the wall clock (new Date(), CURRENT_TIMESTAMP)
    username,        \* users.username, NULL for an id with no row yet
    acctReq,         \* the last POST /api/register or /api/user/wallet request and its response
    mints,           \* the calls of mintTokensToUser by POST /api/register, in the order made
    lookups,         \* the calls of getTokenBalance followed on their own, in the order made
    wallet_address,  \* users.wallet_address, NULL when not bound
    tieOrder,        \* how the store orders rows equal in every sort key
    questions,       \* the questions table, row id = index
    answers,         \* the answers table, row id = index
    endorsements,    \* the endorsements table, in insertion order
    serverBalance,   \* token balance of the server wallet on the ledger
    transfers,       \* confirmed reward transfers on the ledger; tx hash = index
    tick,            \* the runs of checkExpiredQuestions
    req,             \* the endorse requests
    sink,            \* the calls of persistQuestionToRag, in the order made
    ragStore,        \* the question/answer pairs add_file stored in the RAG data
    aiReq,           \* the GET /api/questions/:id/ai-answer requests
    failed           \* log: the question of every transferRewardToWinner call that returned failure

vars == <<now, username, acctReq, mints, lookups, wallet_address, tieOrder, sink, ragStore, aiReq, questions, answers,
          endorsements, serverBalance, transfers, tick, req, failed>>

Ticks == 1..MaxTicks
Reqs == 1..MaxReqs
AiReqs == 1..MaxAiReqs

\* ------------------------------------------------------------ the tables
\* database.js: a questions row as INSERTed by POST /api/questions, the
\* settlement columns at their defaults.
NewQuestion(user, reward, deadline) ==
    [user_id |-> user, token_reward |-> reward, deadline |-> deadline,
     influence_points |-> 0, reward_distributed |-> 0,
     winning_answer_id |-> NULL, reward_transfer_hash |-> NULL,
     ai_answer |-> NULL]

\* database.js: an answers row as INSERTed by POST /api/answers.
NewAnswer(question, user, created) ==
    [question_id |-> question, user_id |-> user, created_at |-> created,
     influence_points |-> 0]

QuestionIds == DOMAIN questions
AnswerIds == DOMAIN answers

AnswersOf(q) == {a \in AnswerIds : answers[a].question_id = q}

\* A run of checkExpiredQuestions: expiredQuestions holds the ids of the rows
\* the discovery query returned and not yet processed, ai_answers the
\* ai_answer column of every row as that query read it.
IdleTick == [pc |-> "idle", expiredQuestions |-> <<>>, ai_answers |-> <<>>,
             winningAnswer |-> NULL, wallet |-> NULL, points |-> 0, txHash |-> NULL]

IdleReq == [pc |-> "idle", user |-> NULL, target_type |-> "none", target_id |-> NULL,
            userTokens |-> 0, lookupFailed |-> FALSE, response |-> "none"]

IdleAcctReq == [route |-> "none", user |-> NULL, username |-> NULL,
                walletAddress |-> NULL, response |-> "none"]

IdleAiReq == [pc |-> "idle", question |-> NULL, aiAnswer |-> NULL, response |-> "none"]

InitCommon ==
    /\ now = 0
    /\ username = [u \in Users |-> u]
    /\ acctReq = IdleAcctReq
    /\ mints = <<>>
    /\ lookups = <<>>
    /\ wallet_address = [u \in Users |-> IF u = 3 THEN NULL ELSE u]
    /\ tieOrder \in {"first", "last"}
    /\ endorsements = <<>>
    /\ transfers = <<>>
    /\ tick = [t \in Ticks |-> IdleTick]
    /\ req = [r \in Reqs |-> IdleReq]
    /\ failed = <<>>
    /\ sink = <<>>
    /\ ragStore = <<>>
    /\ aiReq = [r \in AiReqs |-> IdleAiReq]

\* One open question with an escrowed reward of one token, no answers yet.
Init ==
    /\ InitCommon
    /\ questions = <<NewQuestion(1, 1, 1)>>
    /\ answers = <<>>
    /\ serverBalance \in 1..EscrowFunds

\* ------------------------------------------------------------- the clock
AdvanceClock ==
    /\ now < MaxNow
    /\ now' = now + 1
    /\ UNCHANGED <<username, acctReq, mints, lookups, wallet_address, tieOrder, sink, ragStore, aiReq, questions, answers, endorsements, serverBalance,
                   transfers, tick, req, failed>>

\* ---------------------------------------------------- POST /api/answers
\* The handler inserts the row for any logged-in user and any question id:
\* it checks neither the deadline nor the wallet.
PostAnswer(u, q) ==
    /\ Len(answers) < MaxAnswers
    /\ answers' = Append(answers, NewAnswer(q, u, now))
    /\ UNCHANGED <<now, username, acctReq, mints, lookups, wallet_address, tieOrder, sink, ragStore, aiReq, questions, endorsements, serverBalance,
                   transfers, tick, req, failed>>

\* ------------------------------------------- checkExpiredQuestions (timer)
RECURSIVE Ascending(_)
\* The rows of a result set in rowid order.
Ascending(S) ==
    IF S = {} THEN <<>>
    ELSE LET m == CHOOSE x \in S : \A y \in S : x <= y
         IN <<m>> \o Ascending(S \ {m})

\* Mutant: the query does not look at the deadline.
IsUnpaid(q) == questions[q].reward_distributed = 0

\* WHERE deadline <= ? AND reward_distributed = 0, the parameter being now.
IsExpiredUnpaid(q) ==
    /\ questions[q].deadline <= now
    /\ questions[q].reward_distributed = 0

ExpiredQuestions == Ascending({q \in QuestionIds : IsExpiredUnpaid(q)})

\* Mutant: ties broken by the latest created_at (ORDER BY ... created_at DESC).
SortsBeforeLatest(a, b) ==
    \/ answers[a].influence_points > answers[b].influence_points
    \/ /\ answers[a].influence_points = answers[b].influence_points
       /\ answers[a].created_at >= answers[b].created_at

\* ORDER BY a.influence_points DESC, a.created_at ASC: row a sorts no later
\* than row b.
SortsBefore(a, b) ==
    \/ answers[a].influence_points > answers[b].influence_points
    \/ /\ answers[a].influence_points = answers[b].influence_points
       /\ answers[a].created_at <= answers[b].created_at

\* The rows that sort first.  Rows equal in both sort keys come in an order
\* SQL leaves open: the store's sorter keeps them in scan (rowid) order or
\* reverses them, the same way on every query.
FirstRows(q) ==
    {a \in AnswersOf(q) : \A b \in AnswersOf(q) : SortsBefore(a, b)}

\* LIMIT 1: the row the winner query returns for question q, which has answers.
WinningAnswer(q) ==
    IF tieOrder = "first"
    THEN CHOOSE a \in FirstRows(q) : \A b \in FirstRows(q) : a <= b
    ELSE CHOOSE a \in FirstRows(q) : \A b \in FirstRows(q) : a >= b

\* UPDATE questions SET reward_distributed = 1, winning_answer_id = ?,
\*                      reward_transfer_hash = ? WHERE id = ?
UpdateRewarded(q, a, hash) ==
    [questions EXCEPT ![q].reward_distributed = 1,
                      ![q].winning_answer_id = a,
                      ![q].reward_transfer_hash = hash]

\* Mutant: the statement names the winner and leaves the flag alone.
UpdateNoWalletFlagLeft(q, a) ==
    [questions EXCEPT ![q].winning_answer_id = a]

\* UPDATE questions SET reward_distributed = 1, winning_answer_id = ? WHERE id = ?
UpdateNoWallet(q, a) ==
    [questions EXCEPT ![q].reward_distributed = 1, ![q].winning_answer_id = a]

\* Mutant: the statement also names a winner.
UpdateNoAnswersWinner(q) ==
    [questions EXCEPT ![q].reward_distributed = 1, ![q].winning_answer_id = 1]

\* UPDATE questions SET reward_distributed = 1 WHERE id = ?
UpdateNoAnswers(q) ==
    [questions EXCEPT ![q].reward_distributed = 1]

\* ensureAiAnswerForQuestion up to its first await: the ai_answer of the
\* question object it was handed is returned as it is, otherwise
\* generateAIAnswer is called.
EnsureAiAnswer(task) ==
    IF task.ai_answer # NULL
    THEN [task EXCEPT !.pc = "store", !.aiAnswer = task.ai_answer]
    ELSE [task EXCEPT !.pc = "generate"]

\* persistQuestionToRag(question, winningAnswer) up to its first await.  The
\* question object is the row the discovery query returned (ai_answer as read
\* then), winningAnswer the row of the winner query or null.  An answer's
\* content is never empty (POST /api/answers refuses it), so
\* hasStrongHumanAnswer is: a winner with influence_points > 0.
PersistQuestionToRag(q, ai, a, points) ==
    LET task == [question |-> q, ai_answer |-> ai, winningAnswer |-> a,
                 influence_points |-> points, pc |-> "human", aiAnswer |-> NULL,
                 stored |-> "none"]
    IN IF a # NULL /\ points > 0 THEN task ELSE EnsureAiAnswer(task)

\* The question a run is working on, and the run moving on to the next one.
Current(t) == Head(tick[t].expiredQuestions)

NextQuestion(t) ==
    LET rest == Tail(tick[t].expiredQuestions)
    IN [IdleTick EXCEPT !.pc = IF rest = <<>> THEN "done" ELSE "select",
                        !.expiredQuestions = rest,
                        !.ai_answers = IF rest = <<>> THEN <<>>
                                       ELSE tick[t].ai_answers]

\* setInterval fires and the discovery query runs, whatever earlier runs are
\* still doing.
Discover(t) ==
    /\ tick[t].pc = "idle"
    /\ \A s \in Ticks : s < t => tick[s].pc # "idle"
    /\ tick' = [tick EXCEPT ![t] =
                  [IdleTick EXCEPT
                     !.pc = IF ExpiredQuestions = <<>> THEN "done" ELSE "select",
                     !.expiredQuestions = ExpiredQuestions,
                     !.ai_answers = IF ExpiredQuestions = <<>> THEN <<>>
                                    ELSE [q \in QuestionIds |->
                                             questions[q].ai_answer]]]
    /\ UNCHANGED <<now, username, acctReq, mints, lookups, wallet_address, tieOrder, sink, ragStore, aiReq, questions, answers, endorsements,
                   serverBalance, transfers, req, failed>>

\* The winner query for the current question and the branch taken on its row.
FindWinningAnswer(t) ==
    /\ tick[t].pc = "select"
    /\ LET q == Current(t) IN
       \/ /\ AnswersOf(q) = {}
          /\ tick' = [tick EXCEPT ![t].pc = "noanswers"]
       \/ /\ AnswersOf(q) # {}
          /\ LET a == WinningAnswer(q)
                 w == wallet_address[answers[a].user_id]
             IN tick' = [tick EXCEPT
                           ![t].pc = IF w # NULL THEN "transfer" ELSE "nowallet",
                           ![t].winningAnswer = a,
                           ![t].wallet = w,
                           ![t].points = answers[a].influence_points]
    /\ UNCHANGED <<now, username, acctReq, mints, lookups, wallet_address, tieOrder, sink, ragStore, aiReq, questions, answers, endorsements,
                   serverBalance, transfers, req, failed>>

\* Mutant: the balance of the server wallet is not compared with the amount.
TransferCheckBalanceUnchecked(t) ==
    /\ tick[t].pc = "transfer"
    /\ \/ /\ tick' = [tick EXCEPT ![t].pc = "sending"]
          /\ UNCHANGED failed
       \/ /\ tick' = [tick EXCEPT ![t] = NextQuestion(t)]
          /\ failed' = Append(failed, Current(t))
    /\ UNCHANGED <<now, username, acctReq, mints, lookups, wallet_address, tieOrder, sink, ragStore, aiReq, questions, answers, endorsements,
                   serverBalance, transfers, req>>

\* Mutant: a failure before the transfer is sent is recorded as a settlement.
TransferCheckBalanceSettles(t) ==
    /\ tick[t].pc = "transfer"
    /\ \/ /\ serverBalance >= questions[Current(t)].token_reward
          /\ tick' = [tick EXCEPT ![t].pc = "sending"]
          /\ UNCHANGED <<failed, questions>>
       \/ /\ tick' = [tick EXCEPT ![t] = NextQuestion(t)]
          /\ failed' = Append(failed, Current(t))
          /\ questions' = UpdateRewarded(Current(t), tick[t].winningAnswer, NULL)
    /\ UNCHANGED <<now, username, acctReq, mints, lookups, wallet_address, tieOrder, sink, ragStore, aiReq, answers, endorsements,
                   serverBalance, transfers, req>>

\* transferRewardToWinner up to the balance check: decimals(), symbol() and
\* balanceOf() may throw, and a balance below the amount throws.
TransferCheckBalance(t) ==
    /\ tick[t].pc = "transfer"
    /\ \/ /\ serverBalance >= questions[Current(t)].token_reward
          /\ tick' = [tick EXCEPT ![t].pc = "sending"]
          /\ UNCHANGED failed
       \/ /\ tick' = [tick EXCEPT ![t] = NextQuestion(t)]
          /\ failed' = Append(failed, Current(t))
    /\ UNCHANGED <<now, username, acctReq, mints, lookups, wallet_address, tieOrder, sink, ragStore, aiReq, questions, answers, endorsements,
                   serverBalance, transfers, req>>

\* Mutant: the transfer is addressed to the wallet of the question's asker.
TransferSendToAsker(t) ==
    /\ tick[t].pc = "sending"
    /\ LET q == Current(t)
           amount == questions[q].token_reward
       IN \/ /\ serverBalance >= amount
             /\ serverBalance' = serverBalance - amount
             /\ transfers' = Append(transfers,
                                    [question |-> q,
                                     to |-> wallet_address[questions[q].user_id],
                                     amount |-> amount])
             /\ tick' = [tick EXCEPT ![t].pc = "confirmed",
                                     ![t].txHash = Len(transfers) + 1]
             /\ UNCHANGED failed
          \/ /\ tick' = [tick EXCEPT ![t] = NextQuestion(t)]
             /\ failed' = Append(failed, q)
             /\ UNCHANGED <<serverBalance, transfers>>
    /\ UNCHANGED <<now, username, acctReq, mints, lookups, wallet_address, tieOrder, sink, ragStore, aiReq, questions, answers, endorsements, req>>

\* contract.transfer and tx.wait: the transaction is confirmed on the ledger,
\* or it is rejected or lost and the function returns failure.
TransferSend(t) ==
    /\ tick[t].pc = "sending"
    /\ LET q == Current(t)
           amount == questions[q].token_reward
       IN \/ /\ serverBalance >= amount
             /\ serverBalance' = serverBalance - amount
             /\ transfers' = Append(transfers,
                                    [question |-> q, to |-> tick[t].wallet,
                                     amount |-> amount])
             /\ tick' = [tick EXCEPT ![t].pc = "confirmed",
                                     ![t].txHash = Len(transfers) + 1]
             /\ UNCHANGED failed
          \/ /\ tick' = [tick EXCEPT ![t] = NextQuestion(t)]
             /\ failed' = Append(failed, q)
             /\ UNCHANGED <<serverBalance, transfers>>
    /\ UNCHANGED <<now, username, acctReq, mints, lookups, wallet_address, tieOrder, sink, ragStore, aiReq, questions, answers, endorsements, req>>

\* The balance reads after the confirmation, the return, and the caller's
\* branch on transferResult.success: the UPDATE and, in its callback, the call
\* of persistQuestionToRag.
TransferReturn(t) ==
    /\ tick[t].pc = "confirmed"
    /\ \/ /\ questions' = UpdateRewarded(Current(t), tick[t].winningAnswer,
                                         tick[t].txHash)
          /\ sink' = Append(sink, PersistQuestionToRag(
                                      Current(t), tick[t].ai_answers[Current(t)],
                                      tick[t].winningAnswer, tick[t].points))
          /\ UNCHANGED failed
       \/ /\ failed' = Append(failed, Current(t))
          /\ UNCHANGED <<questions, sink>>
    /\ tick' = [tick EXCEPT ![t] = NextQuestion(t)]
    /\ UNCHANGED <<now, username, acctReq, mints, lookups, wallet_address, tieOrder, ragStore, aiReq, answers, endorsements,
                   serverBalance, transfers, req>>

\* The winner's author has no wallet address: the UPDATE and, in its callback,
\* the call of persistQuestionToRag.
MarkNoWallet(t) ==
    /\ tick[t].pc = "nowallet"
    /\ questions' = UpdateNoWallet(Current(t), tick[t].winningAnswer)
    /\ sink' = Append(sink, PersistQuestionToRag(
                                Current(t), tick[t].ai_answers[Current(t)],
                                tick[t].winningAnswer, tick[t].points))
    /\ tick' = [tick EXCEPT ![t] = NextQuestion(t)]
    /\ UNCHANGED <<now, username, acctReq, mints, lookups, wallet_address, tieOrder, ragStore, aiReq, answers, endorsements,
                   serverBalance, transfers, req, failed>>

\* No answers: the UPDATE and, in its callback, the call of
\* persistQuestionToRag.
MarkNoAnswers(t) ==
    /\ tick[t].pc = "noanswers"
    /\ questions' = UpdateNoAnswers(Current(t))
    /\ sink' = Append(sink, PersistQuestionToRag(
                                Current(t), tick[t].ai_answers[Current(t)], NULL, 0))
    /\ tick' = [tick EXCEPT ![t] = NextQuestion(t)]
    /\ UNCHANGED <<now, username, acctReq, mints, lookups, wallet_address, tieOrder, ragStore, aiReq, answers, endorsements,
                   serverBalance, transfers, req, failed>>

\* The same three statements when the store refuses them (the `if (err)`
\* branch of each callback): the row stays as it was.  The callbacks of the
\* winner branches call persistQuestionToRag whether or not err is set, the
\* callback of the no-answers branch only when it is not.
TransferReturnUpdateError(t) ==
    /\ tick[t].pc = "confirmed"
    /\ sink' = Append(sink, PersistQuestionToRag(
                                Current(t), tick[t].ai_answers[Current(t)],
                                tick[t].winningAnswer, tick[t].points))
    /\ tick' = [tick EXCEPT ![t] = NextQuestion(t)]
    /\ UNCHANGED <<now, username, acctReq, mints, lookups, wallet_address, tieOrder, ragStore, aiReq, questions, answers,
                   endorsements, serverBalance, transfers, req, failed>>

MarkNoWalletUpdateError(t) ==
    /\ tick[t].pc = "nowallet"
    /\ sink' = Append(sink, PersistQuestionToRag(
                                Current(t), tick[t].ai_answers[Current(t)],
                                tick[t].winningAnswer, tick[t].points))
    /\ tick' = [tick EXCEPT ![t] = NextQuestion(t)]
    /\ UNCHANGED <<now, username, acctReq, mints, lookups, wallet_address, tieOrder, ragStore, aiReq, questions, answers,
                   endorsements, serverBalance, transfers, req, failed>>

MarkNoAnswersUpdateError(t) ==
    /\ tick[t].pc = "noanswers"
    /\ tick' = [tick EXCEPT ![t] = NextQuestion(t)]
    /\ UNCHANGED <<now, username, acctReq, mints, lookups, wallet_address, tieOrder, sink, ragStore, aiReq, questions, answers,
                   endorsements, serverBalance, transfers, req, failed>>

\* The runs of checkExpiredQuestions on a store that accepts every statement.
Settlement ==
    \E t \in Ticks :
        \/ Discover(t)
        \/ FindWinningAnswer(t)
        \/ TransferCheckBalance(t)
        \/ TransferSend(t)
        \/ TransferReturn(t)
        \/ MarkNoWallet(t)
        \/ MarkNoAnswers(t)

\* ------------------------------------------------- POST /api/endorse/*
\* Mutant: Math.floor in the place of Math.round.
InfluenceValueFloor(userTokens) == userTokens \div 10

\* Math.round((userTokens / 10) * 10) / 10, in tenths of a point, for a
\* balance in tenths of a token: Math.round rounds halves up.
InfluenceValue(userTokens) == (userTokens + 5) \div 10

\* getTokenBalance: the balance the ledger reports, 0 when the address is
\* refused or a contract call throws.
getTokenBalance(balance, ok) == IF ok THEN balance ELSE 0

\* SELECT id FROM endorsements WHERE user_id = ? AND target_type = ? AND target_id = ?
ExistingEndorsement(user, type, id) ==
    \E i \in DOMAIN endorsements :
        /\ endorsements[i].user_id = user
        /\ endorsements[i].target_type = type
        /\ endorsements[i].target_id = id

\* Mutant: the table has no UNIQUE constraint.
NoUniqueConstraint(user, type, id) == TRUE

\* UNIQUE(user_id, target_type, target_id) of the endorsements table: whether
\* the INSERT of this row is accepted.
UniqueEndorsement(user, type, id) == ~ExistingEndorsement(user, type, id)

Respond(u, type, id, response) ==
    [IdleReq EXCEPT !.pc = "done", !.user = u, !.target_type = type,
                    !.target_id = id, !.response = response]

Reply(r, response) ==
    Respond(req[r].user, req[r].target_type, req[r].target_id, response)

\* POST /api/endorse/question by session user u, up to its first query: the
\* user's row.  No query looks the question up.
EndorseQuestion(r, u, q) ==
    /\ req[r].pc = "idle"
    /\ \A s \in Reqs : s < r => req[s].pc # "idle"
    /\ req' = [req EXCEPT ![r] =
                 IF wallet_address[u] = NULL
                 THEN Respond(u, "question", q, "WalletNotConnected")
                 ELSE [IdleReq EXCEPT !.pc = "balance", !.user = u,
                                      !.target_type = "question", !.target_id = q]]
    /\ UNCHANGED <<now, username, acctReq, mints, lookups, wallet_address, tieOrder, sink, ragStore, aiReq, questions, answers, endorsements,
                   serverBalance, transfers, tick, failed>>

\* Mutant: the author of the answer is not checked.
EndorseAnswerAnyUser(r, u, a) ==
    /\ req[r].pc = "idle"
    /\ \A s \in Reqs : s < r => req[s].pc # "idle"
    /\ req' = [req EXCEPT ![r] =
                 IF a \notin AnswerIds
                 THEN Respond(u, "answer", a, "AnswerNotFound")
                 ELSE [IdleReq EXCEPT !.pc = "user", !.user = u,
                                      !.target_type = "answer", !.target_id = a]]
    /\ UNCHANGED <<now, username, acctReq, mints, lookups, wallet_address, tieOrder, sink, ragStore, aiReq, questions, answers,
                   endorsements, serverBalance, transfers, tick, failed>>

\* POST /api/endorse/answer by session user u, up to its first query: the
\* answer's row and the check of its author.
EndorseAnswer(r, u, a) ==
    /\ req[r].pc = "idle"
    /\ \A s \in Reqs : s < r => req[s].pc # "idle"
    /\ req' = [req EXCEPT ![r] =
                 IF a \notin AnswerIds
                 THEN Respond(u, "answer", a, "AnswerNotFound")
                 ELSE IF answers[a].user_id = u
                 THEN Respond(u, "answer", a, "SelfEndorsement")
                 ELSE [IdleReq EXCEPT !.pc = "user", !.user = u,
                                      !.target_type = "answer", !.target_id = a]]
    /\ UNCHANGED <<now, username, acctReq, mints, lookups, wallet_address, tieOrder, sink, ragStore, aiReq, questions, answers, endorsements,
                   serverBalance, transfers, tick, failed>>

\* Mutant: the handler goes on to the balance whatever the user's row holds.
EndorseLookupUserAnyWallet(r) ==
    /\ req[r].pc = "user"
    /\ req' = [req EXCEPT ![r].pc = "balance"]
    /\ UNCHANGED <<now, username, acctReq, mints, lookups, wallet_address, tieOrder, sink, ragStore, aiReq, questions, answers, endorsements,
                   serverBalance, transfers, tick, failed>>

\* endorse/answer: SELECT wallet_address FROM users WHERE id = ?
EndorseLookupUser(r) ==
    /\ req[r].pc = "user"
    /\ req' = [req EXCEPT ![r] =
                 IF wallet_address[req[r].user] = NULL
                 THEN Reply(r, "WalletNotConnected")
                 ELSE [req[r] EXCEPT !.pc = "balance"]]
    /\ UNCHANGED <<now, username, acctReq, mints, lookups, wallet_address, tieOrder, sink, ragStore, aiReq, questions, answers, endorsements,
                   serverBalance, transfers, tick, failed>>

\* const userTokens = await getTokenBalance(user.wallet_address)
EndorseGetBalance(r) ==
    /\ req[r].pc = "balance"
    /\ \E b \in Balances, ok \in BOOLEAN :
         req' = [req EXCEPT ![r].pc = "check",
                            ![r].userTokens = getTokenBalance(b, ok),
                            ![r].lookupFailed = ~ok]
    /\ UNCHANGED <<now, username, acctReq, mints, lookups, wallet_address, tieOrder, sink, ragStore, aiReq, questions, answers, endorsements,
                   serverBalance, transfers, tick, failed>>

\* The duplicate check.
EndorseCheckExisting(r) ==
    /\ req[r].pc = "check"
    /\ req' = [req EXCEPT ![r] =
                 IF ExistingEndorsement(req[r].user, req[r].target_type, req[r].target_id)
                 THEN Reply(r, "AlreadyEndorsed")
                 ELSE [req[r] EXCEPT !.pc = "insert"]]
    /\ UNCHANGED <<now, username, acctReq, mints, lookups, wallet_address, tieOrder, sink, ragStore, aiReq, questions, answers, endorsements,
                   serverBalance, transfers, tick, failed>>

\* INSERT INTO endorsements: a row the UNIQUE constraint refuses rejects the
\* promise, and the catch block answers 500.
EndorseInsert(r) ==
    /\ req[r].pc = "insert"
    /\ IF UniqueEndorsement(req[r].user, req[r].target_type, req[r].target_id)
       THEN /\ endorsements' = Append(endorsements,
                   [user_id |-> req[r].user, target_type |-> req[r].target_type,
                    target_id |-> req[r].target_id,
                    influence_value |-> InfluenceValue(req[r].userTokens)])
            /\ req' = [req EXCEPT ![r].pc = "update"]
       ELSE /\ req' = [req EXCEPT ![r] = Reply(r, "Failed")]
            /\ UNCHANGED endorsements
    /\ UNCHANGED <<now, username, acctReq, mints, lookups, wallet_address, tieOrder, sink, ragStore, aiReq, questions, answers, serverBalance,
                   transfers, tick, failed>>

\* Mutant: the statement sets the score to the new value.
AddInfluenceOverwrites(table, id, value) ==
    IF id \in DOMAIN table
    THEN [table EXCEPT ![id].influence_points = value]
    ELSE table

\* UPDATE ... SET influence_points = influence_points + ? WHERE id = ?
\* A target id with no row updates nothing.
AddInfluence(table, id, value) ==
    IF id \in DOMAIN table
    THEN [table EXCEPT ![id].influence_points = @ + value]
    ELSE table

EndorseUpdate(r) ==
    /\ req[r].pc = "update"
    /\ LET value == InfluenceValue(req[r].userTokens) IN
       IF req[r].target_type = "question"
       THEN /\ questions' = AddInfluence(questions, req[r].target_id, value)
            /\ UNCHANGED answers
       ELSE /\ answers' = AddInfluence(answers, req[r].target_id, value)
            /\ UNCHANGED questions
    /\ req' = [req EXCEPT ![r] = Reply(r, "success")]
    /\ UNCHANGED <<now, username, acctReq, mints, lookups, wallet_address, tieOrder, sink, ragStore, aiReq, endorsements, serverBalance, transfers,
                   tick, failed>>

EndorseSteps(r) ==
    \/ EndorseLookupUser(r)
    \/ EndorseGetBalance(r)
    \/ EndorseCheckExisting(r)
    \/ EndorseInsert(r)
    \/ EndorseUpdate(r)

\* ------------------------------------------------ persistQuestionToRag
\* Mutant: the statement also clears the settlement flag.
UpdateAiAnswerUnsettles(q, text) ==
    [questions EXCEPT ![q].ai_answer = text, ![q].reward_distributed = 0]

\* UPDATE questions SET ai_answer = ?, ai_answer_updated_at = ? WHERE id = ?
UpdateAiAnswer(q, text) ==
    [questions EXCEPT ![q].ai_answer = text]

\* A call of addQAPairToRag returned or threw: stored records the outcome.
Finish(task, outcome) == [task EXCEPT !.pc = "done", !.stored = outcome]

\* addQAPairToRag(questionText, winningAnswer.content): add_file exits 0 and
\* the pair is stored (true), it exits otherwise or does not start (false),
\* or spawn throws (arguments it refuses) and the catch block logs.
SinkStoreHuman(i) ==
    /\ i \in DOMAIN sink
    /\ sink[i].pc = "human"
    /\ \/ /\ ragStore' = Append(ragStore,
                 [question |-> sink[i].question, kind |-> "human",
                  answer |-> sink[i].winningAnswer])
          /\ sink' = [sink EXCEPT ![i] = Finish(sink[i], "true")]
       \/ /\ sink' = [sink EXCEPT ![i] =
                         EnsureAiAnswer([sink[i] EXCEPT !.stored = "false"])]
          /\ UNCHANGED ragStore
       \/ /\ sink' = [sink EXCEPT ![i] = Finish(sink[i], "thrown")]
          /\ UNCHANGED ragStore
    /\ UNCHANGED <<now, username, acctReq, mints, lookups, wallet_address, tieOrder, aiReq, questions, answers, endorsements,
                   serverBalance, transfers, tick, req, failed>>

\* generateAIAnswer: the script prints a text, or prints nothing, fails to
\* start or throws (null).
SinkGenerate(i) ==
    /\ i \in DOMAIN sink
    /\ sink[i].pc = "generate"
    /\ \/ \E text \in GeneratedTexts :
             sink' = [sink EXCEPT ![i].pc = "cache", ![i].aiAnswer = text]
       \/ sink' = [sink EXCEPT ![i].pc = "done"]
    /\ UNCHANGED <<now, username, acctReq, mints, lookups, wallet_address, tieOrder, ragStore, aiReq, questions, answers,
                   endorsements, serverBalance, transfers, tick, req, failed>>

\* The UPDATE that caches the generated text; when the store refuses it the
\* error is logged and the text is returned all the same.
SinkCache(i) ==
    /\ i \in DOMAIN sink
    /\ sink[i].pc = "cache"
    /\ \/ questions' = UpdateAiAnswer(sink[i].question, sink[i].aiAnswer)
       \/ UNCHANGED questions
    /\ sink' = [sink EXCEPT ![i].pc = "store"]
    /\ UNCHANGED <<now, username, acctReq, mints, lookups, wallet_address, tieOrder, ragStore, aiReq, answers, endorsements,
                   serverBalance, transfers, tick, req, failed>>

\* addQAPairToRag(questionText, aiAnswer).
SinkStoreAi(i) ==
    /\ i \in DOMAIN sink
    /\ sink[i].pc = "store"
    /\ \/ /\ ragStore' = Append(ragStore,
                 [question |-> sink[i].question, kind |-> "ai",
                  answer |-> sink[i].aiAnswer])
          /\ sink' = [sink EXCEPT ![i] = Finish(sink[i], "true")]
       \/ /\ sink' = [sink EXCEPT ![i] = Finish(sink[i], "false")]
          /\ UNCHANGED ragStore
       \/ /\ sink' = [sink EXCEPT ![i] = Finish(sink[i], "thrown")]
          /\ UNCHANGED ragStore
    /\ UNCHANGED <<now, username, acctReq, mints, lookups, wallet_address, tieOrder, aiReq, questions, answers, endorsements,
                   serverBalance, transfers, tick, req, failed>>

SinkSteps ==
    \E i \in 1..(MaxTicks * MaxQuestions) :
        \/ SinkStoreHuman(i)
        \/ SinkGenerate(i)
        \/ SinkCache(i)
        \/ SinkStoreAi(i)

\* --------------------------------- GET /api/questions/:id/ai-answer
\* The row is read; a cached answer is returned, otherwise
\* ensureAiAnswerForQuestion generates one.
GetAiAnswer(r, q) ==
    /\ aiReq[r].pc = "idle"
    /\ aiReq' = [aiReq EXCEPT ![r] =
                   IF q \notin QuestionIds
                   THEN [IdleAiReq EXCEPT !.pc = "done", !.question = q,
                                          !.response = "not found"]
                   ELSE IF questions[q].ai_answer # NULL
                   THEN [IdleAiReq EXCEPT !.pc = "done", !.question = q,
                                          !.aiAnswer = questions[q].ai_answer,
                                          !.response = "ready"]
                   ELSE [IdleAiReq EXCEPT !.pc = "generate", !.question = q]]
    /\ UNCHANGED <<now, username, acctReq, mints, lookups, wallet_address, tieOrder, sink, ragStore, questions, answers,
                   endorsements, serverBalance, transfers, tick, req, failed>>

AiGenerate(r) ==
    /\ aiReq[r].pc = "generate"
    /\ \/ \E text \in GeneratedTexts :
             aiReq' = [aiReq EXCEPT ![r].pc = "cache", ![r].aiAnswer = text]
       \/ aiReq' = [aiReq EXCEPT ![r].pc = "done", ![r].response = "pending"]
    /\ UNCHANGED <<now, username, acctReq, mints, lookups, wallet_address, tieOrder, sink, ragStore, questions, answers,
                   endorsements, serverBalance, transfers, tick, req, failed>>

AiCache(r) ==
    /\ aiReq[r].pc = "cache"
    /\ \/ questions' = UpdateAiAnswer(aiReq[r].question, aiReq[r].aiAnswer)
       \/ UNCHANGED questions
    /\ aiReq' = [aiReq EXCEPT ![r].pc = "done", ![r].response = "ready"]
    /\ UNCHANGED <<now, username, acctReq, mints, lookups, wallet_address, tieOrder, sink, ragStore, answers, endorsements,
                   serverBalance, transfers, tick, req, failed>>

AiAnswerSteps ==
    \E r \in AiReqs :
        \/ \E q \in 1..MaxQuestions : GetAiAnswer(r, q)
        \/ AiGenerate(r)
        \/ AiCache(r)

\* ------------------------------------------------- POST /api/questions
\* A value of the request body that is not the text of a number.
NotNumeric == -1
\* Values token_reward and time_limit_minutes may take in a request body, in
\* tenths: 0, 1, 5.7, 10, 11 and a text that is no number.
RequestNumbers == {0, 10, 57, 100, 110, NotNumeric}

\* parseInt: the integer part of a number, NaN for other text.
isNaN(x) == x = NotNumeric
parseInt(x) == x \div 10

\* tokenReward < 1 || tokenReward > 10: both comparisons are false of NaN.
OutOfRange(x) == ~isNaN(x) /\ (parseInt(x) < 1 \/ parseInt(x) > 10)

\* Mutant: the row is inserted as already settled.
PostQuestionSettled(u, token_reward, time_limit_minutes) ==
    /\ Len(questions) < MaxQuestions
    /\ ~OutOfRange(token_reward)
    /\ ~OutOfRange(time_limit_minutes)
    /\ wallet_address[u] # NULL
    /\ ~isNaN(time_limit_minutes)
    /\ questions' = Append(questions,
                           [NewQuestion(u, parseInt(token_reward),
                                        now + parseInt(time_limit_minutes))
                              EXCEPT !.reward_distributed = 1])
    /\ UNCHANGED <<now, username, acctReq, mints, lookups, wallet_address, tieOrder, sink, ragStore, aiReq, answers,
                   endorsements, serverBalance, transfers, tick, req, failed>>

\* The question is inserted for a user with a wallet, with the reward and
\* the time limit as parseInt reads them, the deadline time_limit_minutes
\* from now and the settlement columns at their defaults.  A NaN reward
\* passes the range check and is bound as NULL; a NaN time limit passes it
\* too, but the deadline is then an Invalid Date whose toISOString throws,
\* and the catch block answers 500.
PostQuestion(u, token_reward, time_limit_minutes) ==
    /\ Len(questions) < MaxQuestions
    /\ ~OutOfRange(token_reward)
    /\ ~OutOfRange(time_limit_minutes)
    /\ wallet_address[u] # NULL
    /\ ~isNaN(time_limit_minutes)
    /\ questions' = Append(questions,
                           NewQuestion(u,
                                       IF isNaN(token_reward) THEN NULL
                                       ELSE parseInt(token_reward),
                                       now + parseInt(time_limit_minutes)))
    /\ UNCHANGED <<now, username, acctReq, mints, lookups, wallet_address, tieOrder, sink, ragStore, aiReq, answers,
                   endorsements, serverBalance, transfers, tick, req, failed>>

\* ------------------------------ POST /api/register, /api/user/wallet
\* walletAddress.toLowerCase(): both spellings of an address give the stored
\* one.
toLowerCase(walletAddress) ==
    ((walletAddress - 1) % Cardinality(Addresses)) + 1

\* Mutant: the column takes an address another row holds.
WalletTakenNever(u, address) == FALSE

\* wallet_address TEXT UNIQUE: whether the store refuses address for the row
\* of user u because another row holds it.
WalletTaken(u, address) ==
    \E v \in Users : v # u /\ wallet_address[v] = address

\* AUTOINCREMENT: the id the next users row gets.
NextUserId == CHOOSE u \in Users :
                 /\ username[u] = NULL
                 /\ \A v \in Users : v < u => username[v] # NULL

\* A text that is not 0x followed by 40 hex digits.
MalformedAddresses == {2 * Cardinality(Addresses) + 1}

\* /^0x[a-fA-F0-9]{40}$/.test(walletAddress)
ethAddressRegex(walletAddress) == walletAddress \in Spellings

\* The call mintTokensToUser(toAddress, 20) as POST /api/register makes it for
\* the users row it has just stored; the handler awaits it.
MintCall(u, toAddress) ==
    [user |-> u, toAddress |-> toAddress, amount |-> 200, pc |-> "called",
     response |-> "none"]

\* POST /api/register up to the call of mintTokensToUser: the fields are
\* required, the address must have the format, the INSERT is refused when
\* the username or the lower-cased address is held by another row, and
\* otherwise the row is stored and the mint is called; the response waits for
\* the mint.
Register(name, walletAddress) ==
    /\ \E u \in Users : username[u] = NULL
    /\ LET u == NextUserId
           request == [route |-> "register", user |-> NULL, username |-> name,
                       walletAddress |-> walletAddress, response |-> "none"]
       IN IF name = NULL
          THEN /\ acctReq' = [request EXCEPT !.response = "Required"]
               /\ UNCHANGED <<username, wallet_address, mints>>
          ELSE IF walletAddress = NULL
          THEN /\ acctReq' = [request EXCEPT !.response = "WalletRequired"]
               /\ UNCHANGED <<username, wallet_address, mints>>
          ELSE IF ~ethAddressRegex(walletAddress)
          THEN /\ acctReq' = [request EXCEPT !.response = "InvalidFormat"]
               /\ UNCHANGED <<username, wallet_address, mints>>
          ELSE IF \E v \in Users : username[v] = name
          THEN /\ acctReq' = [request EXCEPT !.response = "UsernameExists"]
               /\ UNCHANGED <<username, wallet_address, mints>>
          ELSE IF WalletTaken(u, toLowerCase(walletAddress))
          THEN /\ acctReq' = [request EXCEPT !.response = "AddressTaken"]
               /\ UNCHANGED <<username, wallet_address, mints>>
          ELSE /\ acctReq' = [request EXCEPT !.user = u]
               /\ username' = [username EXCEPT ![u] = name]
               /\ wallet_address' =
                     [wallet_address EXCEPT ![u] = toLowerCase(walletAddress)]
               /\ mints' = Append(mints, MintCall(u, toLowerCase(walletAddress)))
    /\ UNCHANGED <<now, lookups, tieOrder, sink, ragStore, aiReq, questions, answers, endorsements,
                   serverBalance, transfers, tick, req, failed>>

\* Mutant: a mint that throws is called again.
MintReturnRetries(i) ==
    /\ i \in DOMAIN mints
    /\ mints[i].pc = "called"
    /\ mints' = Append([mints EXCEPT ![i].pc = "thrown"],
                       MintCall(mints[i].user, mints[i].toAddress))
    /\ UNCHANGED <<now, username, acctReq, lookups, wallet_address, tieOrder, sink, ragStore, aiReq, questions, answers,
                   endorsements, serverBalance, transfers, tick, req, failed>>

\* mintTokensToUser returns the transaction hash, or throws again what the
\* environment check, decimals(), mint() or tx.wait() threw.
mintTokensToUser(thrown) == IF thrown THEN "thrown" ELSE "returned"

\* POST /api/register after the mint: success with mintTxHash when it
\* returned, success with mintError when it threw.
MintReturn(i) ==
    /\ i \in DOMAIN mints
    /\ mints[i].pc = "called"
    /\ \E thrown \in BOOLEAN :
          mints' = [mints EXCEPT
                      ![i].pc = mintTokensToUser(thrown),
                      ![i].response = IF thrown THEN "successMintError"
                                                ELSE "successMintTxHash"]
    /\ UNCHANGED <<now, username, acctReq, lookups, wallet_address, tieOrder, sink, ragStore, aiReq, questions, answers,
                   endorsements, serverBalance, transfers, tick, req, failed>>

\* POST /api/user/wallet by session user u: UPDATE users SET wallet_address =
\* ? with the lower-cased address; the UNIQUE column refuses an address
\* another row holds (400) and the row stays as it was.
UpdateWallet(u, walletAddress) ==
    /\ username[u] # NULL
    /\ LET request == [route |-> "wallet", user |-> u, username |-> NULL,
                       walletAddress |-> walletAddress, response |-> "none"]
       IN IF walletAddress = NULL
          THEN /\ acctReq' = [request EXCEPT !.response = "WalletRequired"]
               /\ UNCHANGED wallet_address
          ELSE IF WalletTaken(u, toLowerCase(walletAddress))
          THEN /\ acctReq' = [request EXCEPT !.response = "AddressTaken"]
               /\ UNCHANGED wallet_address
          ELSE /\ acctReq' = [request EXCEPT !.response = "success"]
               /\ wallet_address' =
                     [wallet_address EXCEPT ![u] = toLowerCase(walletAddress)]
    /\ UNCHANGED <<now, username, mints, lookups, tieOrder, sink, ragStore, aiReq, questions, answers,
                   endorsements, serverBalance, transfers, tick, req, failed>>

\* ------------------------------------------------------- specifications
Next ==
    \/ AdvanceClock
    \/ \E u \in Users, q \in QuestionIds : PostAnswer(u, q)
    \/ Settlement
    \/ \E u \in Users, a \in 1..MaxAnswers : EndorseAnswer(1, u, a)
    \/ EndorseSteps(1)

Spec == Init /\ [][Next]_vars

\* The timer on its schedule: the store answers a query well within the 60 s
\* period, so a run is still at work when the timer fires again only while it
\* waits for the ledger (transferRewardToWinner waits for the confirmation).
\* SpecTimed keeps to that schedule and to a store that returns rows equal in
\* every sort key in rowid order.
InitTimed == Init /\ tieOrder = "first"

DiscoverOnSchedule(t) ==
    /\ \A s \in Ticks :
         s < t => tick[s].pc \in {"done", "transfer", "sending", "confirmed"}
    /\ Discover(t)

NextTimed ==
    \/ AdvanceClock
    \/ \E u \in Users, q \in QuestionIds : PostAnswer(u, q)
    \/ \E t \in Ticks :
          \/ DiscoverOnSchedule(t)
          \/ FindWinningAnswer(t)
          \/ TransferCheckBalance(t)
          \/ TransferSend(t)
          \/ TransferReturn(t)
          \/ MarkNoWallet(t)
          \/ MarkNoAnswers(t)
    \/ \E u \in Users, a \in 1..MaxAnswers : EndorseAnswer(1, u, a)
    \/ EndorseSteps(1)

SpecTimed == InitTimed /\ [][NextTimed]_vars

\* A batch of two expired questions on the same schedule: the first has an
\* answer by a user with a wallet, the second an answer by a user without.
InitBatch ==
    /\ InitCommon
    /\ tieOrder = "first"
    /\ questions = <<NewQuestion(1, 1, 0), NewQuestion(2, 1, 0)>>
    /\ answers = <<NewAnswer(1, 1, 0), NewAnswer(2, 3, 0)>>
    /\ serverBalance \in 1..EscrowFunds

NextBatch ==
    \E t \in Ticks :
        \/ DiscoverOnSchedule(t)
        \/ FindWinningAnswer(t)
        \/ TransferCheckBalance(t)
        \/ TransferSend(t)
        \/ TransferReturn(t)
        \/ MarkNoWallet(t)

SpecBatch == InitBatch /\ [][NextBatch]_vars

\* The endorse handlers alone, every request slot in use, on a store that
\* holds one question and the answers posted so far.
NextEndorse ==
    \/ \E u \in Users, q \in QuestionIds : PostAnswer(u, q)
    \/ \E r \in Reqs, u \in Users, q \in 1..(Len(questions) + 1) : EndorseQuestion(r, u, q)
    \/ \E r \in Reqs, u \in Users, a \in 1..MaxAnswers : EndorseAnswer(r, u, a)
    \/ \E r \in Reqs : EndorseSteps(r)

SpecEndorse == Init /\ [][NextEndorse]_vars

\* Winner selection on its own: the store holds one expired question and
\* PoolSize answers to it, with any scores, creation times and authors of the
\* pools; the timer runs select a winner and go no further.
InitWinner ==
    /\ InitCommon
    /\ questions = <<NewQuestion(1, 1, 0)>>
    /\ answers \in [1..PoolSize ->
                      [question_id : {1}, user_id : {2, 3},
                       created_at : 0..MaxNow, influence_points : PoolPoints]]
    /\ serverBalance = EscrowFunds

NextWinner == \E t \in Ticks : Discover(t) \/ FindWinningAnswer(t)

SpecWinner == InitWinner /\ [][NextWinner]_vars

\* The timer runs and the knowledge sink on a store that may refuse a
\* statement: one expired question, with or without a cached ai_answer, and
\* no answer or one answer, by user 2 (wallet) or user 3 (no wallet), with
\* influence_points 0 or 0.3.
InitSink ==
    /\ InitCommon
    /\ tieOrder = "first"
    /\ \E ai \in {NULL, 1} :
          questions = <<[NewQuestion(1, 1, 0) EXCEPT !.ai_answer = ai]>>
    /\ \/ answers = <<>>
       \/ \E u \in {2, 3}, p \in {0, 3} :
             answers = <<[NewAnswer(1, u, 0) EXCEPT !.influence_points = p]>>
    /\ serverBalance = EscrowFunds

NextSink ==
    \/ \E t \in Ticks :
          \/ DiscoverOnSchedule(t)
          \/ FindWinningAnswer(t)
          \/ TransferCheckBalance(t)
          \/ TransferSend(t)
          \/ TransferReturn(t)
          \/ TransferReturnUpdateError(t)
          \/ MarkNoWallet(t)
          \/ MarkNoWalletUpdateError(t)
          \/ MarkNoAnswers(t)
          \/ MarkNoAnswersUpdateError(t)
    \/ SinkSteps

SpecSink == InitSink /\ [][NextSink]_vars

\* Mutant: the timer fires MaxTicks times and stops.
TimerStops(t) == FALSE /\ UNCHANGED vars

\* setInterval: the timer goes on firing after a run is over; the model
\* forgets the finished run and uses its place for a later firing.
TimerRearm(t) ==
    /\ tick[t].pc = "done"
    /\ tick' = [tick EXCEPT ![t] = IdleTick]
    /\ UNCHANGED <<now, username, acctReq, mints, lookups, wallet_address, tieOrder, sink, ragStore, aiReq,
                   questions, answers, endorsements, serverBalance, transfers, req,
                   failed>>

\* A ledger on which a transfer fails at most MaxFailures times before one
\* goes through.
LedgerRecovers == failed' # failed => Len(failed) < MaxFailures

\* The steps of run t after its discovery query.
RunSteps(t) ==
    \/ FindWinningAnswer(t)
    \/ TransferCheckBalance(t) /\ LedgerRecovers
    \/ TransferSend(t) /\ LedgerRecovers
    \/ TransferReturn(t) /\ LedgerRecovers
    \/ MarkNoWallet(t)
    \/ MarkNoAnswers(t)

\* The timer for ever, on a ledger where transfers eventually succeed: one
\* expired question with no answer, or one answer by user 2 (wallet) or by
\* user 3 (no wallet), and an escrow that outlasts the failures.
InitLive ==
    /\ InitCommon
    /\ tieOrder = "first"
    /\ \E reward \in 1..2 : questions = <<NewQuestion(1, reward, 0)>>
    /\ \/ answers = <<>>
       \/ \E u \in {2, 3}, p \in {0, 3} :
             answers = <<[NewAnswer(1, u, 0) EXCEPT !.influence_points = p]>>
    /\ serverBalance = 2 * (MaxFailures + 1)

NextLive ==
    \E t \in Ticks :
        \/ Discover(t)
        \/ TimerRearm(t)
        \/ RunSteps(t)

\* Fairness: the timer fires again and again, and every call a run awaits
\* returns (with either outcome).
SpecLive ==
    /\ InitLive
    /\ [][NextLive]_vars
    /\ \A t \in Ticks : WF_vars(Discover(t))
    /\ \A t \in Ticks : WF_vars(TimerRearm(t))
    /\ \A t \in Ticks : WF_vars(RunSteps(t))

\* Payments while wallets change: two expired questions with rewards of 1 and
\* 2 tokens, asked by user 2; the first answered by user 1 (wallet 1), the
\* second by user 3 (no wallet yet); users 1 and 3 bind other addresses while
\* the timer runs.
InitPay ==
    /\ InitCommon
    /\ tieOrder = "first"
    /\ questions = <<NewQuestion(2, 1, 0), NewQuestion(2, 2, 0)>>
    /\ answers = <<NewAnswer(1, 1, 0), NewAnswer(2, 3, 0)>>
    /\ serverBalance = EscrowFunds + 1

NextPay ==
    \/ \E t \in Ticks :
          \/ DiscoverOnSchedule(t)
          \/ FindWinningAnswer(t)
          \/ TransferCheckBalance(t)
          \/ TransferSend(t)
          \/ TransferReturn(t)
          \/ MarkNoWallet(t)
    \/ \E u \in {1, 3}, walletAddress \in {1, 3} : UpdateWallet(u, walletAddress)

SpecPay == InitPay /\ [][NextPay]_vars

\* POST /api/questions alone, with every request value, on an empty table.
InitAsk ==
    /\ InitCommon
    /\ tieOrder = "first"
    /\ questions = <<>>
    /\ answers = <<>>
    /\ serverBalance = EscrowFunds

NextAsk ==
    \/ AdvanceClock
    \/ \E u \in Users, token_reward \in RequestNumbers,
          time_limit_minutes \in RequestNumbers :
          PostQuestion(u, token_reward, time_limit_minutes)

SpecAsk == InitAsk /\ [][NextAsk]_vars

\* The account routes alone: user 1 registered with a wallet, user 2 a row
\* that predates the wallet_address column, id 3 free.
InitAccounts ==
    /\ now = 0
    /\ username = [u \in Users |-> IF u = 3 THEN NULL ELSE u]
    /\ acctReq = IdleAcctReq
    /\ mints = <<>>
    /\ lookups = <<>>
    /\ wallet_address = [u \in Users |-> IF u = 1 THEN 1 ELSE NULL]
    /\ tieOrder = "first"
    /\ questions = <<>>
    /\ answers = <<>>
    /\ endorsements = <<>>
    /\ serverBalance = EscrowFunds
    /\ transfers = <<>>
    /\ tick = [t \in Ticks |-> IdleTick]
    /\ req = [r \in Reqs |-> IdleReq]
    /\ failed = <<>>
    /\ sink = <<>>
    /\ ragStore = <<>>
    /\ aiReq = [r \in AiReqs |-> IdleAiReq]

NextAccounts ==
    \/ \E name \in Names \cup {NULL}, walletAddress \in Spellings \cup {NULL} :
          Register(name, walletAddress)
    \/ \E u \in Users, walletAddress \in Spellings \cup {NULL} :
          UpdateWallet(u, walletAddress)

SpecAccounts == InitAccounts /\ [][NextAccounts]_vars

\* The contract calls getTokenBalance(address) makes: none for an address that
\* fails its check, decimals() and then, unless decimals() threw, balanceOf().
ContractCalls(address, decimalsThrows) ==
    IF address = NULL \/ ~ethAddressRegex(address) THEN <<>>
    ELSE IF decimalsThrows THEN <<"decimals">>
    ELSE <<"decimals", "balanceOf">>

\* Mutant: what a contract call throws leaves the function.
GetTokenBalanceUncaught(address) ==
    /\ Len(lookups) < MaxLookups
    /\ \E decimalsThrows, balanceOfThrows \in BOOLEAN, balance \in Balances :
         LET rpc == ContractCalls(address, decimalsThrows)
             rpcError == \/ rpc = <<"decimals">>
                         \/ Len(rpc) = 2 /\ balanceOfThrows
         IN lookups' = Append(lookups,
                [address |-> address, rpc |-> rpc, rpcError |-> rpcError,
                 outcome |-> IF rpcError THEN "thrown" ELSE "returned",
                 value |-> getTokenBalance(balance, rpc # <<>> /\ ~rpcError)])
    /\ UNCHANGED <<now, username, acctReq, mints, wallet_address, tieOrder, sink, ragStore, aiReq, questions, answers,
                   endorsements, serverBalance, transfers, tick, req, failed>>

\* getTokenBalance(address), one call from entry to return: 0 for an address
\* that is empty or not of the format, without a contract call; otherwise the
\* balance balanceOf() reports, or 0 from the catch block when decimals() or
\* balanceOf() threw.
GetTokenBalance(address) ==
    /\ Len(lookups) < MaxLookups
    /\ \E decimalsThrows, balanceOfThrows \in BOOLEAN, balance \in Balances :
         LET rpc == ContractCalls(address, decimalsThrows)
             rpcError == \/ rpc = <<"decimals">>
                         \/ Len(rpc) = 2 /\ balanceOfThrows
         IN lookups' = Append(lookups,
                [address |-> address, rpc |-> rpc, rpcError |-> rpcError,
                 outcome |-> "returned",
                 value |-> getTokenBalance(balance, rpc # <<>> /\ ~rpcError)])
    /\ UNCHANGED <<now, username, acctReq, mints, wallet_address, tieOrder, sink, ragStore, aiReq, questions, answers,
                   endorsements, serverBalance, transfers, tick, req, failed>>

\* Registration with its mint: the users table holds user 1 with wallet 1, and
\* registrations arrive with any name and any text for the address while
\* earlier mints are still awaited.
InitRegister ==
    /\ now = 0
    /\ username = [u \in Users |-> IF u = 1 THEN u ELSE NULL]
    /\ acctReq = IdleAcctReq
    /\ mints = <<>>
    /\ lookups = <<>>
    /\ wallet_address = [u \in Users |-> IF u = 1 THEN 1 ELSE NULL]
    /\ tieOrder = "first"
    /\ questions = <<>>
    /\ answers = <<>>
    /\ endorsements = <<>>
    /\ serverBalance = EscrowFunds
    /\ transfers = <<>>
    /\ tick = [t \in Ticks |-> IdleTick]
    /\ req = [r \in Reqs |-> IdleReq]
    /\ failed = <<>>
    /\ sink = <<>>
    /\ ragStore = <<>>
    /\ aiReq = [r \in AiReqs |-> IdleAiReq]

NextRegister ==
    \/ \E name \in Names \cup {NULL},
          walletAddress \in Spellings \cup MalformedAddresses \cup {NULL} :
          Register(name, walletAddress)
    \/ \E i \in DOMAIN mints : MintReturn(i)

SpecRegister == InitRegister /\ [][NextRegister]_vars

\* getTokenBalance on its own: calls with a stored address in either
\* spelling, a text that is no address, or no address at all, on a ledger
\* whose contract calls may throw.
NextBalance ==
    \E address \in Spellings \cup MalformedAddresses \cup {NULL} :
        GetTokenBalance(address)

SpecBalance == InitRegister /\ [][NextBalance]_vars

\* Every route and the timer together: one timer run, one request of each
\* kind at a time.  The store holds one expired question that user 2 endorsed
\* with a balance of 2.5 tokens.  User 1 asks a second question, users 1 and 3
\* answer the first, user 3 binds a wallet, user 1 endorses a question and
\* users 1 and 2 answer 1.
InitForum ==
    /\ now = MaxNow
    /\ username = [u \in Users |-> u]
    /\ acctReq = IdleAcctReq
    /\ mints = <<>>
    /\ lookups = <<>>
    /\ wallet_address = [u \in Users |-> IF u = 3 THEN NULL ELSE u]
    /\ tieOrder = "first"
    /\ questions = <<[NewQuestion(1, 1, 0) EXCEPT !.influence_points = 3]>>
    /\ answers = <<>>
    /\ endorsements = <<[user_id |-> 2, target_type |-> "question", target_id |-> 1,
                         influence_value |-> 3]>>
    /\ serverBalance = EscrowFunds
    /\ transfers = <<>>
    /\ tick = [t \in Ticks |-> IdleTick]
    /\ req = [r \in Reqs |-> IdleReq]
    /\ failed = <<>>
    /\ sink = <<>>
    /\ ragStore = <<>>
    /\ aiReq = [r \in AiReqs |-> IdleAiReq]

NextForum ==
    \/ PostQuestion(1, 10, 10)
    \/ \E u \in {1, 3} : PostAnswer(u, 1)
    \/ UpdateWallet(3, 3)
    \/ \E q \in 1..MaxQuestions : EndorseQuestion(1, 1, q)
    \/ \E u \in {1, 2} : EndorseAnswer(1, u, 1)
    \/ EndorseSteps(1)
    \/ Discover(1)
    \/ FindWinningAnswer(1)
    \/ TransferCheckBalance(1)
    \/ TransferSend(1)
    \/ TransferReturn(1)
    \/ MarkNoWallet(1)
    \/ MarkNoAnswers(1)
    \/ SinkSteps
    \/ AiAnswerSteps

SpecForum == InitForum /\ [][NextForum]_vars

\* ================================================================ claims
\* The reward transfers the ledger confirmed for question q.
TransfersFor(q) == {i \in DOMAIN transfers : transfers[i].question = q}

\* A run is past its winner query for question q and has not yet finished
\* with it.
Settling(t, q) ==
    /\ tick[t].pc \in {"transfer", "sending", "confirmed", "nowallet", "noanswers"}
    /\ Current(t) = q

\* Run t takes the step.
Acts(t) == tick'[t] # tick[t]

\* C1 (stated as the claim; the code violates it): for every question, at
\* most one reward transfer is confirmed on the ledger, whatever the
\* interleaving of timer runs.
AtMostOncePayment ==
    \A q \in QuestionIds : Cardinality(TransfersFor(q)) <= 1

\* C2 (stated as the claim; the code violates it): at most one settlement
\* attempt is in flight for a question at any time.
NoConcurrentSettlement ==
    \A q \in QuestionIds : Cardinality({t \in Ticks : Settling(t, q)}) <= 1

\* The settlement columns of a questions row.
SettlementState(row) ==
    <<row.reward_distributed, row.winning_answer_id, row.reward_transfer_hash>>

\* C3 (stated as the claim; the code violates it): a failed transfer leaves
\* the question's row as it was, and once a transfer for a question has
\* failed the question becomes settled only by a run whose transfer for it
\* was confirmed and returned success.
RetryAfterFailure ==
    [][\A q \in QuestionIds :
         /\ (Len(failed') > Len(failed) /\ failed'[Len(failed')] = q)
               => questions'[q] = questions[q]
         /\ (/\ \E i \in DOMAIN failed : failed[i] = q
             /\ questions[q].reward_distributed = 0
             /\ questions'[q].reward_distributed = 1)
               => \E t \in Ticks :
                     /\ tick[t].pc = "confirmed"
                     /\ Current(t) = q
                     /\ questions'[q].reward_transfer_hash = tick[t].txHash
      ]_vars

\* C4: a run whose selected winner has a wallet writes the question's row
\* only after its own transfer for that question was confirmed, and the write
\* sets reward_distributed = 1, the selected winner and that transfer's hash
\* together; a call that returns failure writes nothing.
SettledOnlyAfterSuccess ==
    [][\A t \in Ticks :
         (tick[t].pc \in {"transfer", "sending", "confirmed"} /\ Acts(t)) =>
            LET q == Current(t) IN
            /\ questions'[q] # questions[q] =>
                  /\ tick[t].pc = "confirmed"
                  /\ tick[t].txHash \in DOMAIN transfers
                  /\ transfers[tick[t].txHash].question = q
                  /\ failed' = failed
                  /\ questions'[q] =
                        [questions[q] EXCEPT
                            !.reward_distributed = 1,
                            !.winning_answer_id = tick[t].winningAnswer,
                            !.reward_transfer_hash = tick[t].txHash]
            /\ failed' # failed => questions' = questions
      ]_vars

\* C4 witness: a question settled with the hash of a confirmed transfer for it.
SettledWithReceipt ==
    \E q \in QuestionIds :
        /\ questions[q].reward_distributed = 1
        /\ questions[q].reward_transfer_hash \in TransfersFor(q)
        /\ questions[q].winning_answer_id \in AnswersOf(q)

\* C5 (stated as the claim; the code violates it): reward_distributed never
\* goes back to 0, and the settlement columns of a row are written only
\* while the row is unsettled, so at most once.
SettlesOnce ==
    [][\A q \in QuestionIds :
         /\ questions[q].reward_distributed = 1
               => questions'[q].reward_distributed = 1
         /\ SettlementState(questions'[q]) # SettlementState(questions[q])
               => /\ questions[q].reward_distributed = 0
                  /\ questions'[q].reward_distributed = 1
      ]_vars

\* C6: the winner a run selects has the greatest influence_points of the
\* question's answers and, among the answers with that score, the earliest
\* created_at; with scores 3.0 (answer 1, earliest), 3.0 (answer 2, later)
\* and 2.5 or less (the rest) every run selects answer 1.
ScoresOfExample(q) ==
    /\ {1, 2, 3} \subseteq AnswersOf(q)
    /\ answers[1].influence_points = 30
    /\ answers[2].influence_points = 30
    /\ answers[1].created_at < answers[2].created_at
    /\ \A b \in AnswersOf(q) \ {1, 2} : answers[b].influence_points = 25

DeterministicWinner ==
    \A t \in Ticks :
        tick[t].pc \in {"transfer", "nowallet"} =>
            LET q == Current(t)
                w == tick[t].winningAnswer
            IN /\ w \in AnswersOf(q)
               /\ \A b \in AnswersOf(q) :
                     /\ answers[w].influence_points >= answers[b].influence_points
                     /\ answers[b].influence_points = answers[w].influence_points
                           => answers[w].created_at <= answers[b].created_at
               /\ ScoresOfExample(q) => w = 1

\* C6 witness: both runs selected answer 1 on the scores of the example.
ExampleWinnerSelected ==
    /\ ScoresOfExample(1)
    /\ \A t \in Ticks : tick[t].pc \in {"transfer", "nowallet"}
                       /\ tick[t].winningAnswer = 1

\* C7: a run that finds no answer for the question takes the no-answers
\* branch; its UPDATE sets reward_distributed = 1 and writes neither
\* winning_answer_id nor reward_transfer_hash (both are null after it when the
\* row was unsettled), and the run goes on to the next question without
\* calling transferRewardToWinner: no transfer reaches the ledger.
NoAnswerSettlement ==
    [][\A t \in Ticks :
         Acts(t) =>
           /\ (tick[t].pc = "select" /\ AnswersOf(Current(t)) = {})
                 => /\ tick'[t].pc = "noanswers"
                    /\ questions' = questions
           /\ tick[t].pc = "noanswers" =>
                 LET q == Current(t) IN
                 /\ questions'[q].reward_distributed = 1
                 /\ questions'[q].winning_answer_id = questions[q].winning_answer_id
                 /\ questions'[q].reward_transfer_hash
                       = questions[q].reward_transfer_hash
                 /\ questions[q].reward_distributed = 0
                       => /\ questions'[q].winning_answer_id = NULL
                          /\ questions'[q].reward_transfer_hash = NULL
                 /\ tick'[t].pc \in {"select", "done"}
                 /\ transfers' = transfers
                 /\ serverBalance' = serverBalance
                 /\ failed' = failed
      ]_vars

\* C7 witness: a question settled with no winner, no hash and no transfer.
SettledWithoutAnswers ==
    \E q \in QuestionIds :
        /\ questions[q].reward_distributed = 1
        /\ questions[q].winning_answer_id = NULL
        /\ questions[q].reward_transfer_hash = NULL
        /\ AnswersOf(q) = {}
        /\ TransfersFor(q) = {}

\* The question is settled as unclaimable: marked, with a winner whose author
\* has no wallet address and with no transfer hash.
MarkedUnclaimable(q) ==
    /\ questions[q].reward_distributed = 1
    /\ questions[q].winning_answer_id \in AnswersOf(q)
    /\ wallet_address[answers[questions[q].winning_answer_id].user_id] = NULL
    /\ questions[q].reward_transfer_hash = NULL

\* C8 (stated as the claim; the code violates it): a run whose selected
\* winner's author has no wallet address takes the no-wallet branch; its
\* UPDATE sets reward_distributed = 1 and winning_answer_id to that answer,
\* the hash stays null and no transfer reaches the ledger; and a question an
\* earlier run has marked unclaimable is not processed again by a later run
\* (a run after which no run has started yet is later than the one that
\* marked the question).
UnclaimableReward ==
    [][\A t \in Ticks :
         Acts(t) =>
           /\ (/\ tick[t].pc = "select"
               /\ AnswersOf(Current(t)) # {}
               /\ wallet_address[answers[WinningAnswer(Current(t))].user_id] = NULL)
                 => /\ tick'[t].pc = "nowallet"
                    /\ tick'[t].winningAnswer = WinningAnswer(Current(t))
                    /\ questions' = questions
           /\ tick[t].pc = "nowallet" =>
                 LET q == Current(t) IN
                 /\ questions'[q].reward_distributed = 1
                 /\ questions'[q].winning_answer_id = tick[t].winningAnswer
                 /\ questions'[q].reward_transfer_hash
                       = questions[q].reward_transfer_hash
                 /\ tick'[t].pc \in {"select", "done"}
                 /\ transfers' = transfers
                 /\ serverBalance' = serverBalance
                 /\ failed' = failed
           /\ (/\ tick[t].pc = "select"
               /\ \A s \in Ticks : s > t => tick[s].pc = "idle")
                 => ~MarkedUnclaimable(Current(t))
      ]_vars

\* The (user_id, target_type, target_id) of a request, and whether its INSERT
\* was accepted.
Key(r) == <<req[r].user, req[r].target_type, req[r].target_id>>

Inserted(r) ==
    \/ req[r].pc = "update"
    \/ req[r].pc = "done" /\ req[r].response = "success"

RowKey(row) == <<row.user_id, row.target_type, row.target_id>>

RECURSIVE ValueSum(_, _, _)
\* The sum of influence_value over the first n endorsements rows of a target.
ValueSum(type, id, n) ==
    IF n = 0 THEN 0
    ELSE ValueSum(type, id, n - 1)
         + (IF endorsements[n].target_type = type /\ endorsements[n].target_id = id
            THEN endorsements[n].influence_value ELSE 0)

\* C9: the endorsements table holds at most one row per (user_id,
\* target_type, target_id); at most one request per such triple gets past its
\* INSERT to the increment; and no target's influence_points exceeds the sum
\* of the values of its rows.
EndorsementUniqueness ==
    /\ \A i, j \in DOMAIN endorsements :
          RowKey(endorsements[i]) = RowKey(endorsements[j]) => i = j
    /\ \A r1, r2 \in Reqs :
          (Inserted(r1) /\ Inserted(r2) /\ Key(r1) = Key(r2)) => r1 = r2
    /\ \A q \in QuestionIds :
          questions[q].influence_points
             <= ValueSum("question", q, Len(endorsements))
    /\ \A a \in AnswerIds :
          answers[a].influence_points <= ValueSum("answer", a, Len(endorsements))

\* C9 witness: two requests of one user for one target both got past the
\* duplicate check; one inserted its row and the other was refused.
RacingEndorsementsOneRow ==
    /\ req[1].pc = "done"
    /\ req[2].pc = "done"
    /\ Key(1) = Key(2)
    /\ {req[1].response, req[2].response} = {"success", "Failed"}
    /\ Len(endorsements) = 1
    /\ endorsements[1].influence_value > 0

\* C10 (stated as the claim; the code violates it): when a request of a user
\* for a target got its row inserted, every other request of that user for
\* that target that got as far as the duplicate check and has finished was
\* answered AlreadyEndorsed, and the table holds the one row.
SecondEndorseAlreadyEndorsed ==
    \A r1, r2 \in Reqs :
        (/\ r1 # r2
         /\ Key(r1) = Key(r2)
         /\ Inserted(r1)
         /\ req[r2].pc = "done"
         /\ req[r2].response \in {"success", "AlreadyEndorsed", "Failed"})
            => /\ req[r2].response = "AlreadyEndorsed"
               /\ Cardinality({i \in DOMAIN endorsements :
                                  RowKey(endorsements[i]) = Key(r1)}) = 1

\* C11: along every step (an endorsement, a question or answer posted, a
\* timer run, a sink call, a wallet update, an ai-answer request) the
\* influence_points of every question and of every answer does not decrease,
\* and a row that is created starts at 0.
WeightMonotonic ==
    [][
        /\ \A q \in DOMAIN questions :
             /\ q \in DOMAIN questions'
             /\ questions'[q].influence_points >= questions[q].influence_points
        /\ \A a \in DOMAIN answers :
             /\ a \in DOMAIN answers'
             /\ answers'[a].influence_points >= answers[a].influence_points
        /\ \A q \in DOMAIN questions' \ DOMAIN questions :
             questions'[q].influence_points = 0
        /\ \A a \in DOMAIN answers' \ DOMAIN answers :
             answers'[a].influence_points = 0
      ]_vars

\* C11 witness: the question that carried 0.3 points was endorsed again, it
\* was settled by the timer run and its sink call has finished.
EndorsedTwiceAndSettled ==
    /\ questions[1].influence_points > 3
    /\ questions[1].reward_distributed = 1
    /\ Len(sink) > 0
    /\ sink[1].pc = "done"

\* C12: the row a request inserts carries the balance getTokenBalance
\* returned to that request, divided by 10 and rounded to one decimal (in
\* tenths: the value v with 10v - 5 <= balance <= 10v + 4); 45 tokens give
\* 4.5; the value is never negative; and a request whose balance is 0 or
\* whose lookup failed inserts its row all the same, with the value 0.
WeightComputation ==
    [][\A r \in Reqs :
         (/\ req[r].pc = "insert"
          /\ req'[r] # req[r]
          /\ ~ExistingEndorsement(req[r].user, req[r].target_type, req[r].target_id))
            => /\ Len(endorsements') = Len(endorsements) + 1
               /\ LET row == endorsements'[Len(endorsements')]
                      v == row.influence_value
                      b == req[r].userTokens
                  IN /\ RowKey(row) = Key(r)
                     /\ v >= 0
                     /\ 10 * v - 5 <= b
                     /\ b <= 10 * v + 4
                     /\ b = 450 => v = 45
                     /\ (b = 0 \/ req[r].lookupFailed) => v = 0
      ]_vars

\* C12 witness: one request inserted its row with the value 4.5 for a balance
\* of 45 tokens, the other, whose lookup had failed, its row with the value 0.
WeightsRecorded ==
    /\ req[1].pc = "update"
    /\ req[1].userTokens = 450
    /\ req[2].pc = "update"
    /\ req[2].lookupFailed
    /\ Len(endorsements) = 2
    /\ \E i, j \in DOMAIN endorsements :
          /\ RowKey(endorsements[i]) = Key(1)
          /\ endorsements[i].influence_value = 45
          /\ RowKey(endorsements[j]) = Key(2)
          /\ endorsements[j].influence_value = 0

QuestionOf(target_type, target_id) ==
    IF target_type = "question" THEN target_id
    ELSE IF target_id \in AnswerIds THEN answers[target_id].question_id
    ELSE NULL

\* C14: no endorse request on a question whose deadline has passed, or on an
\* answer to it, is answered with success.
NoEndorsementAfterExpiry ==
    \A r \in Reqs :
        (req[r].pc = "done" /\ req[r].response = "success") =>
            LET q == QuestionOf(req[r].target_type, req[r].target_id)
            IN  q \in QuestionIds => now < questions[q].deadline

\* C15: whenever no endorse request is between its first query and its
\* response, the influence_points of every question and of every answer is
\* the sum of influence_value over the endorsements rows of that target.
RecordsMatchScore ==
    (\A r \in Reqs : req[r].pc \in {"idle", "done"}) =>
        /\ \A q \in QuestionIds :
              questions[q].influence_points
                 = ValueSum("question", q, Len(endorsements))
        /\ \A a \in AnswerIds :
              answers[a].influence_points
                 = ValueSum("answer", a, Len(endorsements))

\* C16: no run of checkExpiredQuestions that waits for the transfer of one
\* question's reward holds back another question it discovered: while the
\* transfer is in flight, the question being paid is the only one of the run
\* left unprocessed.
IndependentProcessing ==
    \A t \in Ticks :
        tick[t].pc = "sending" => Len(tick[t].expiredQuestions) = 1

\* C17: persistQuestionToRag is called for a question only in a step that
\* leaves the question with reward_distributed = 1.
SinkOnlyAfterCommit ==
    [][Len(sink') > Len(sink) =>
          questions'[sink'[Len(sink')].question].reward_distributed = 1
      ]_vars

\* C18: a step of persistQuestionToRag, whatever its stores and its
\* generation do, changes no column of any question but ai_answer, changes no
\* other table, no transfer and no timer run, and a store that throws ends
\* the call there (the catch block), not the run that made it.
SinkNeverAffectsSettlement ==
    [][(Len(sink') = Len(sink) /\ sink' # sink) =>
          /\ tick' = tick
          /\ failed' = failed
          /\ transfers' = transfers
          /\ serverBalance' = serverBalance
          /\ answers' = answers
          /\ DOMAIN questions' = DOMAIN questions
          /\ \A q \in QuestionIds :
                /\ SettlementState(questions'[q]) = SettlementState(questions[q])
                /\ questions'[q] =
                      [questions[q] EXCEPT !.ai_answer = questions'[q].ai_answer]
          /\ \A i \in DOMAIN sink :
                sink'[i].stored = "thrown" => sink'[i].pc = "done"
      ]_vars

\* C18 witness: a sink call whose last store failed or threw is over, after
\* writing the ai_answer of its question, and the question is settled with
\* its winner and its transfer hash.
SinkFailedQuestionSettled ==
    \E i \in DOMAIN sink :
        /\ sink[i].pc = "done"
        /\ sink[i].stored = "thrown"
        /\ sink[i].ai_answer = NULL
        /\ questions[sink[i].question].ai_answer # NULL
        /\ questions[sink[i].question].reward_distributed = 1
        /\ questions[sink[i].question].winning_answer_id # NULL
        /\ questions[sink[i].question].reward_transfer_hash # NULL

\* C19: a sink call starts with the human answer exactly when there is a
\* winner with influence_points > 0; a human store that succeeds stores the
\* human pair and ends the call; a human store that does not succeed sends
\* the call on to the generated answer; a generated answer is stored as the
\* ai pair of the question; and when none is available nothing is stored.
SinkContentChoice ==
    [][/\ Len(sink') > Len(sink) =>
            LET task == sink'[Len(sink')]
            IN IF task.winningAnswer # NULL /\ task.influence_points > 0
               THEN task.pc = "human"
               ELSE task.pc \in {"generate", "store"}
       /\ \A i \in DOMAIN sink :
            /\ (sink[i].pc = "human" /\ sink'[i] # sink[i]) =>
                  IF ragStore' # ragStore
                  THEN /\ ragStore' = Append(ragStore,
                              [question |-> sink[i].question, kind |-> "human",
                               answer |-> sink[i].winningAnswer])
                       /\ sink'[i].pc = "done"
                  ELSE sink'[i].pc \in {"generate", "store"}
            /\ (sink[i].pc = "generate" /\ sink'[i].pc = "done") =>
                  ragStore' = ragStore
            /\ (sink[i].pc = "store" /\ ragStore' # ragStore) =>
                  ragStore' = Append(ragStore,
                              [question |-> sink[i].question, kind |-> "ai",
                               answer |-> sink[i].aiAnswer])
      ]_vars

\* C20: a step that is not a step of a timer run (question creation, answer
\* posting, the endorse routes, the wallet route, the ai-answer route, the
\* sink) removes no question, leaves reward_distributed, winning_answer_id
\* and reward_transfer_hash of every question as they were, and a question
\* it creates has them at 0, NULL and NULL.
SchedulerSoleWriter ==
    [][tick' = tick =>
          /\ \A q \in DOMAIN questions :
                /\ q \in DOMAIN questions'
                /\ SettlementState(questions'[q]) = SettlementState(questions[q])
          /\ \A q \in DOMAIN questions' \ DOMAIN questions :
                SettlementState(questions'[q])
                   = SettlementState(NewQuestion(1, 1, 0))
      ]_vars

\* C20 witness: question 1 is settled with its winner, and since the store
\* was set up a second question was asked, answers were posted, user 3 bound
\* a wallet, an endorsement and an ai-answer request completed and a sink
\* call for question 1 is over.
RoutesActedAroundSettlement ==
    /\ questions[1].reward_distributed = 1
    /\ questions[1].winning_answer_id # NULL
    /\ Len(questions) = 2
    /\ questions[2].reward_distributed = 0
    /\ Len(answers) = 2
    /\ wallet_address[3] = 3
    /\ req[1].pc = "done" /\ req[1].response = "success"
    /\ aiReq[1].pc = "done" /\ aiReq[1].response = "ready"
    /\ questions[1].ai_answer # NULL
    /\ \E i \in DOMAIN sink : sink[i].pc = "done"

\* C21: after every step no two users hold the same wallet_address, and a
\* registration or wallet-update request that names, in any spelling, an
\* address bound to another user is refused and leaves the users table as it
\* was.
AddressUniqueness ==
    [][/\ \A u, v \in Users :
            (u # v /\ wallet_address'[u] # NULL)
               => wallet_address'[u] # wallet_address'[v]
       /\ ((acctReq' # acctReq \/ wallet_address' # wallet_address)
            /\ acctReq'.walletAddress # NULL
            /\ \E v \in Users :
                  /\ v # acctReq'.user
                  /\ username[v] # NULL
                  /\ wallet_address[v] = toLowerCase(acctReq'.walletAddress))
              => /\ acctReq'.response \notin {"success", "none"}
                 /\ wallet_address' = wallet_address
                 /\ username' = username
      ]_vars

\* C21 witness: a third user registered with an address of its own, and the
\* last request, a wallet update spelling user 1's address in upper case,
\* was refused as taken.
TakenAddressRefused ==
    /\ username[3] # NULL
    /\ wallet_address[3] # NULL
    /\ wallet_address[1] = 1
    /\ acctReq.route = "wallet"
    /\ acctReq.user # 1
    /\ acctReq.walletAddress = 1 + Cardinality(Addresses)
    /\ acctReq.response = "AddressTaken"

\* C22: every row POST /api/questions stores has token_reward an integer in
\* 1..10 and a deadline an integer number of minutes in 1..10 after the
\* moment it was stored.
StoredQuestionsInRange ==
    [][Len(questions') > Len(questions) =>
          LET row == questions'[Len(questions')]
          IN /\ row.token_reward \in 1..10
             /\ row.deadline - now \in 1..10
      ]_vars

\* C23: POST /api/answers stores no answer to a question whose deadline has
\* passed.
NoAnswersAfterExpiry ==
    [][Len(answers') > Len(answers) =>
          LET row == answers'[Len(answers')]
          IN row.question_id \in QuestionIds =>
                now < questions[row.question_id].deadline
      ]_vars

\* The questions a run still holds.
Held(run) == {run.expiredQuestions[i] : i \in DOMAIN run.expiredQuestions}

\* C24: the run that starts takes exactly the questions with deadline <= now
\* and reward_distributed = 0, so a question settled when the run starts is
\* not among them; and while a question's deadline lies ahead no run holds
\* it, no transfer was made for it and its settlement columns are at their
\* defaults.
DiscoveryExact ==
    [][/\ \A t \in Ticks :
            (tick[t].pc = "idle" /\ tick'[t].pc # "idle") =>
               \A q \in QuestionIds :
                  q \in Held(tick'[t]) <=>
                     (questions[q].deadline <= now
                        /\ questions[q].reward_distributed = 0)
       /\ \A q \in DOMAIN questions' :
            now' < questions'[q].deadline =>
               /\ \A t \in Ticks : q \notin Held(tick'[t])
               /\ \A i \in DOMAIN transfers' : transfers'[i].question # q
               /\ SettlementState(questions'[q])
                     = SettlementState(NewQuestion(1, 1, 0))
      ]_vars

\* C24 witness: both runs are over, one of them paid the winner of question
\* 1 and settled it, and the other, started before the deadline or after the
\* settlement, found nothing to process: one transfer, no failure.
OneRunFoundNothing ==
    /\ tick[1].pc = "done"
    /\ tick[2].pc = "done"
    /\ questions[1].reward_distributed = 1
    /\ questions[1].winning_answer_id # NULL
    /\ Len(transfers) = 1
    /\ failed = <<>>

TransferToWinner ==
    [][/\ \A t \in Ticks :
            /\ (tick[t].pc = "select" /\ tick'[t].pc \in {"transfer", "nowallet"}) =>
                  /\ tick'[t].winningAnswer \in AnswersOf(Current(t))
                  /\ tick'[t].wallet
                        = wallet_address[answers[tick'[t].winningAnswer].user_id]
            /\ (tick[t].pc \in {"transfer", "sending"}
                   /\ tick'[t].pc \in {"transfer", "sending", "confirmed"}) =>
                  /\ tick'[t].wallet = tick[t].wallet
                  /\ tick'[t].winningAnswer = tick[t].winningAnswer
                  /\ tick'[t].expiredQuestions = tick[t].expiredQuestions
       /\ transfers' # transfers =>
            \E t \in Ticks :
               /\ tick[t].pc = "sending"
               /\ tick'[t].pc = "confirmed"
               /\ tick[t].wallet # NULL
               /\ transfers' = Append(transfers,
                                      [question |-> Current(t),
                                       to |-> tick[t].wallet,
                                       amount |-> questions[Current(t)].token_reward])
      ]_vars

\* C26 witness: question 1 was paid with 1 token to address 1, the wallet of
\* its winner when selected, who has bound address 3 since or meanwhile; and
\* question 2 with 2 tokens to the address user 3 bound before the run
\* selected the answer.
WinnersPaid ==
    /\ wallet_address[1] = NULL \/ wallet_address[1] # 1
    /\ \E i, j \in DOMAIN transfers :
          /\ transfers[i] = [question |-> 1, to |-> 1, amount |-> 1]
          /\ transfers[j].question = 2
          /\ transfers[j].amount = 2
          /\ transfers[j].to = wallet_address[3]

\* C27: the generator is called, by a sink call or by an ai-answer request,
\* only for a question that has no cached ai_answer in the store at that
\* moment.
CachedAnswerReused ==
    [][/\ \A i \in DOMAIN sink' :
            (sink'[i].pc = "generate"
               /\ (i \in DOMAIN sink => sink[i].pc # "generate"))
              => questions[sink'[i].question].ai_answer = NULL
       /\ \A r \in AiReqs :
            (aiReq'[r].pc = "generate" /\ aiReq[r].pc # "generate")
              => questions[aiReq'[r].question].ai_answer = NULL
      ]_vars

\* C28: when a step sets a question's reward_distributed to 1 with a
\* winning_answer_id, no answer of the question then in the store has more
\* influence_points than the recorded one, nor as many with an earlier
\* created_at.
WinnerIsTopAtCommit ==
    [][\A q \in QuestionIds :
         (/\ questions[q].reward_distributed = 0
          /\ questions'[q].reward_distributed = 1
          /\ questions'[q].winning_answer_id # NULL)
            => LET w == questions'[q].winning_answer_id
               IN \A b \in DOMAIN answers' :
                     answers'[b].question_id = q =>
                        /\ answers'[b].influence_points <= answers'[w].influence_points
                        /\ answers'[b].influence_points = answers'[w].influence_points
                              => answers'[w].created_at <= answers'[b].created_at
      ]_vars

\* C29: transferRewardToWinner returns failure only from a call in which no
\* transfer was confirmed on the ledger.
FailureOnlyWithoutTransfer ==
    [][Len(failed') > Len(failed) =>
          \A t \in Ticks : Acts(t) => tick[t].txHash = NULL
      ]_vars

\* C30: a run whose transferRewardToWinner call finds the server wallet's
\* balance below the question's token_reward submits no transfer: the call
\* returns failure, the ledger and the questions table stay as they were,
\* and the question, past its deadline, is there for the next discovery
\* query if it was unsettled.
InsufficientEscrow ==
    [][\A t \in Ticks :
         (/\ tick[t].pc = "transfer"
          /\ Acts(t)
          /\ serverBalance < questions[Current(t)].token_reward)
            => /\ tick'[t].pc \notin {"sending", "confirmed"}
               /\ failed' = Append(failed, Current(t))
               /\ transfers' = transfers
               /\ serverBalance' = serverBalance
               /\ questions' = questions
               /\ questions'[Current(t)].deadline <= now'
      ]_vars

\* C30 witness: the escrow held one token, the first run's transfer took it
\* and is confirmed but not yet returned, and the second run, started
\* meanwhile, has had its transfer call fail and is over; question 1 is
\* still unsettled.
EscrowEmptyCallFailed ==
    /\ tick[1].pc = "confirmed"
    /\ tick[2].pc = "done"
    /\ serverBalance = 0
    /\ Len(transfers) = 1
    /\ failed = <<1>>
    /\ questions[1].reward_distributed = 0

\* C31: the settlement columns of every questions row agree: a transfer hash
\* comes with reward_distributed = 1 and a winner, a winner comes with
\* reward_distributed = 1 and is an answer to that question, and an unsettled
\* row has neither a winner nor a hash.
SettlementColumnsAgree ==
    \A q \in QuestionIds :
        LET row == questions[q] IN
        /\ row.reward_transfer_hash # NULL
              => row.reward_distributed = 1 /\ row.winning_answer_id # NULL
        /\ row.winning_answer_id # NULL
              => /\ row.reward_distributed = 1
                 /\ row.winning_answer_id \in AnswersOf(q)
        /\ row.reward_distributed = 0
              => row.winning_answer_id = NULL /\ row.reward_transfer_hash = NULL

\* C31 witness: two runs wrote the same row, one after a confirmed transfer
\* and one for a winner without a wallet, and both runs are over.
RowWrittenByTwoBranches ==
    \E q \in QuestionIds :
        /\ questions[q].reward_transfer_hash # NULL
        /\ questions[q].winning_answer_id # NULL
        /\ \A i \in TransfersFor(q) :
              wallet_address[answers[questions[q].winning_answer_id].user_id]
                 # transfers[i].to
        /\ \A t \in Ticks : tick[t].pc = "done"

\* C32 (stated as the claim; the code violates it): for every settled question
\* with a transfer hash, every confirmed reward transfer for that question
\* went to the wallet of the author of the answer in winning_answer_id.
PaidRecipientIsWinner ==
    \A q \in QuestionIds :
        (questions[q].reward_distributed = 1
            /\ questions[q].reward_transfer_hash # NULL) =>
           \A i \in TransfersFor(q) :
              transfers[i].to =
                 wallet_address[answers[questions[q].winning_answer_id].user_id]

\* The handler of request r reads the user's row in this step: endorse/question
\* reads it first, endorse/answer after the answer's row.
ReadsUserRow(r) ==
    \/ req[r].pc = "user" /\ req'[r] # req[r]
    \/ req[r].pc = "idle" /\ req'[r].target_type = "question"

\* C33: an endorse call whose user row has no wallet address is answered with
\* the refusal when the row is read, before getTokenBalance is called; it
\* inserts no endorsement and changes no influence_points, so no endorsement
\* is recorded for a user without a wallet (none with value 0 either).
NoWalletEndorseRejected ==
    [][\A r \in Reqs :
         /\ (ReadsUserRow(r) /\ wallet_address[req'[r].user] = NULL) =>
               /\ req'[r].pc = "done"
               /\ req'[r].response = "WalletNotConnected"
               /\ req'[r].userTokens = IdleReq.userTokens
               /\ UNCHANGED <<endorsements, questions, answers>>
         /\ (req[r].pc # "balance" /\ req'[r].pc = "balance")
               => wallet_address[req'[r].user] # NULL
         /\ \A i \in DOMAIN endorsements' :
               wallet_address[endorsements'[i].user_id] # NULL
      ]_vars

\* C33 witness: an endorse/answer call and an endorse/question call by a user
\* without a wallet were both refused, and nothing was recorded.
NoWalletCallsRefused ==
    /\ \E r \in Reqs : /\ req[r].pc = "done"
                       /\ req[r].target_type = "answer"
                       /\ req[r].target_id \in AnswerIds
                       /\ wallet_address[req[r].user] = NULL
                       /\ req[r].response = "WalletNotConnected"
    /\ \E r \in Reqs : /\ req[r].pc = "done"
                       /\ req[r].target_type = "question"
                       /\ req[r].target_id \in QuestionIds
                       /\ wallet_address[req[r].user] = NULL
                       /\ req[r].response = "WalletNotConnected"
    /\ endorsements = <<>>
    /\ \A q \in QuestionIds : questions[q].influence_points = 0
    /\ \A a \in AnswerIds : answers[a].influence_points = 0

\* C34 (stated as the claim; the code violates it): every endorsements row
\* names a stored target, a question id for target_type 'question' and an
\* answer id for target_type 'answer'.
EndorsementTargetsExist ==
    \A i \in DOMAIN endorsements :
        /\ endorsements[i].target_type = "question"
              => endorsements[i].target_id \in QuestionIds
        /\ endorsements[i].target_type = "answer"
              => endorsements[i].target_id \in AnswerIds

\* C35: when the mint of a registration throws, the users row stored for it
\* stays as it is, with its wallet address, the response is success with a
\* mint error and no further mint is called; mintTokensToUser is called only
\* in the step that stores a registration's row, once for that row, and a
\* refused registration calls none.
RegistrationSurvivesMintFailure ==
    [][/\ \A i \in DOMAIN mints :
            (mints[i].pc = "called" /\ mints'[i].pc = "thrown") =>
               /\ UNCHANGED <<username, wallet_address>>
               /\ username'[mints[i].user] # NULL
               /\ wallet_address'[mints[i].user] = mints[i].toAddress
               /\ mints'[i].response = "successMintError"
               /\ Len(mints') = Len(mints)
       /\ Len(mints') # Len(mints) =>
            LET call == mints'[Len(mints')] IN
            /\ Len(mints') = Len(mints) + 1
            /\ username[call.user] = NULL
            /\ username'[call.user] # NULL
            /\ wallet_address'[call.user] = call.toAddress
            /\ acctReq'.route = "register"
            /\ acctReq'.user = call.user
       /\ \A i, j \in DOMAIN mints' :
            mints'[i].user = mints'[j].user => i = j
       /\ (acctReq' # acctReq /\ acctReq'.route = "register"
             /\ acctReq'.response # "none") => mints' = mints
      ]_vars

\* C35 witness: the mint of user 2's registration threw, the row is stored
\* with its address, and a later registration under the same name was refused
\* without a mint.
RegisteredDespiteMintFailure ==
    /\ Len(mints) = 1
    /\ mints[1].user = 2
    /\ mints[1].pc = "thrown"
    /\ mints[1].response = "successMintError"
    /\ username[2] # NULL
    /\ wallet_address[2] = mints[1].toAddress
    /\ acctReq.route = "register"
    /\ acctReq.username = username[2]
    /\ acctReq.response = "UsernameExists"

\* C36: every call of getTokenBalance returns, with a number that is not
\* negative; for an address that is empty or not of the format it returns 0
\* and makes no contract call, and when a contract call throws it returns 0.
BalanceLookupTotal ==
    \A i \in DOMAIN lookups :
        LET call == lookups[i] IN
        /\ call.outcome = "returned"
        /\ call.value >= 0
        /\ (call.address = NULL \/ call.address \in MalformedAddresses)
              => call.value = 0 /\ call.rpc = <<>>
        /\ call.rpcError => call.value = 0

\* C36 witness: a call with a text that is no address returned 0 without a
\* contract call, and a call with an address returned 0 after balanceOf()
\* threw.
LookupsFailedAsZero ==
    /\ Len(lookups) = 2
    /\ lookups[1].address \in MalformedAddresses
    /\ lookups[1].rpc = <<>>
    /\ lookups[1].value = 0
    /\ lookups[2].address \in Addresses
    /\ lookups[2].rpc = <<"decimals", "balanceOf">>
    /\ lookups[2].rpcError
    /\ lookups[2].outcome = "returned"
    /\ lookups[2].value = 0

====
